---------------------------- MODULE Spec2Model ----------------------------
(***************************************************************************)
(* ReactOS setup library, base/setup/lib/filesup.c: ConcatPaths,           *)
(* DoesPathExist, DoesFileExist, NtPathToDiskPartComponents,               *)
(* OpenAndMapFile and UnMapFile.                                           *)
(*                                                                         *)
(* A wide string is a sequence of one-character strings without its        *)
(* terminator; reading at or past the end yields NUL.  An optional string  *)
(* pointer is a sequence of length at most one: <<>> is the NULL pointer   *)
(* and <<s>> points to s.                                                  *)
(***************************************************************************)
EXTENDS Integers, Sequences, FiniteSets, TLC

VARIABLES
    join,       \* the ConcatPaths call under check: its input and its result
    parse,      \* the NtPathToDiskPartComponents call: its input and its result
    fs,         \* the object namespace: what exists at each name
    handles,    \* the handle table of the process
    views,      \* the mapped views of the process, by base address
    out,        \* the caller's output slots handed to OpenAndMapFile
    last        \* the library call that returned last (its arguments, the
                \* names by their place in the list they are drawn from, what it
                \* returned and the system calls it made)

vars == <<join, parse, fs, handles, views, out, last>>

kernel == <<fs, handles, views, out, last>>

-----------------------------------------------------------------------------
(* Bounds of the checked input sets.                                       *)

MaxBaseLen == 3

MaxAddLen == 3

MaxCap == 5

MaxTailLen == 2

MaxHandles == 2

MaxViews == 1

\* The number of characters of a FullName buffer.
MAX_PATH == 260

-----------------------------------------------------------------------------
(* Characters and strings.                                                 *)

NUL == "NUL"

BSLASH == "\\"

NullStr == <<>>

Ptr(s) == <<s>>

IsNull(p) == Len(p) = 0

Deref(p) == p[1]

\* s[i] of the C code, 0-based, reading the terminator at the end
CharAt(s, i) == IF i >= 0 /\ i < Len(s) THEN s[i + 1] ELSE NUL

\* the string a pointer s + n designates
Advance(s, n) == IF n >= Len(s) THEN <<>> ELSE SubSeq(s, n + 1, Len(s))

Min(a, b) == IF a <= b THEN a ELSE b

StringsUpTo(alphabet, n) == UNION {[1..k -> alphabet] : k \in 0..n}

NT_SUCCESS(Status) == Status = "STATUS_SUCCESS"

\* no call made, in the specifications that do not use the variable
NoJoin == [called |-> FALSE]

NoParse == [called |-> FALSE]

-----------------------------------------------------------------------------
(* ntstrsafe.h string routines used by filesup.c.                          *)

\* Appends src to the string in a buffer of cchDest characters; the result
\* is always terminated inside the buffer, and a source that does not fit is
\* cut and reported as STATUS_BUFFER_OVERFLOW.
RtlStringCchCatW(pszDest, cchDest, pszSrc) ==
    IF cchDest = 0 \/ Len(pszDest) >= cchDest
    THEN [Status |-> "STATUS_INVALID_PARAMETER", Dest |-> pszDest]
    ELSE LET room == cchDest - Len(pszDest) - 1
         IN  IF Len(pszSrc) <= room
             THEN [Status |-> "STATUS_SUCCESS", Dest |-> pszDest \o pszSrc]
             ELSE [Status |-> "STATUS_BUFFER_OVERFLOW",
                   Dest |-> pszDest \o SubSeq(pszSrc, 1, room)]

\* Copies src into an empty buffer of cchDest characters, cutting likewise.
RtlStringCchCopyW(cchDest, pszSrc) ==
    IF cchDest = 0
    THEN [Status |-> "STATUS_INVALID_PARAMETER", Dest |-> <<>>]
    ELSE IF Len(pszSrc) <= cchDest - 1
         THEN [Status |-> "STATUS_SUCCESS", Dest |-> pszSrc]
         ELSE [Status |-> "STATUS_BUFFER_OVERFLOW",
               Dest |-> SubSeq(pszSrc, 1, cchDest - 1)]

-----------------------------------------------------------------------------
(* ConcatPaths                                                             *)

RECURSIVE SkipBackslashes(_)
\* while (*PathElem2 == L'\\') ++PathElem2;
SkipBackslashes(s) ==
    IF CharAt(s, 0) = BSLASH THEN SkipBackslashes(Advance(s, 1)) ELSE s

\* ConcatPaths with the final append given one character more than the buffer
\* has (a capacity off by one).
ConcatPaths_OffByOne(PathElem1, cchPathSize, PathElem2) ==
    IF IsNull(PathElem2)
    THEN [Status |-> "STATUS_SUCCESS", Dest |-> PathElem1]
    ELSE IF cchPathSize <= 1
    THEN [Status |-> "STATUS_SUCCESS", Dest |-> PathElem1]
    ELSE
      LET Elem2 == Deref(PathElem2)
          cchPathLen == Min(cchPathSize, Len(PathElem1))
      IN  IF /\ CharAt(Elem2, 0) # BSLASH
             /\ cchPathLen > 0
             /\ CharAt(PathElem1, cchPathLen - 1) # BSLASH
          THEN LET sep == RtlStringCchCatW(PathElem1, cchPathSize, <<BSLASH>>)
               IN  IF ~NT_SUCCESS(sep.Status)
                   THEN sep
                   ELSE RtlStringCchCatW(sep.Dest, cchPathSize + 1, Elem2)
          ELSE IF /\ CharAt(Elem2, 0) = BSLASH
                  /\ cchPathLen > 0
                  /\ CharAt(PathElem1, cchPathLen - 1) = BSLASH
          THEN RtlStringCchCatW(PathElem1, cchPathSize + 1, SkipBackslashes(Elem2))
          ELSE RtlStringCchCatW(PathElem1, cchPathSize + 1, Elem2)

\* ConcatPaths without the loop that skips the leading backslashes.
ConcatPaths_NoSkip(PathElem1, cchPathSize, PathElem2) ==
    IF IsNull(PathElem2)
    THEN [Status |-> "STATUS_SUCCESS", Dest |-> PathElem1]
    ELSE IF cchPathSize <= 1
    THEN [Status |-> "STATUS_SUCCESS", Dest |-> PathElem1]
    ELSE
      LET Elem2 == Deref(PathElem2)
          cchPathLen == Min(cchPathSize, Len(PathElem1))
      IN  IF /\ CharAt(Elem2, 0) # BSLASH
             /\ cchPathLen > 0
             /\ CharAt(PathElem1, cchPathLen - 1) # BSLASH
          THEN LET sep == RtlStringCchCatW(PathElem1, cchPathSize, <<BSLASH>>)
               IN  IF ~NT_SUCCESS(sep.Status)
                   THEN sep
                   ELSE RtlStringCchCatW(sep.Dest, cchPathSize, Elem2)
          ELSE RtlStringCchCatW(PathElem1, cchPathSize, Elem2)

\* The result is the returned status and the content of PathElem1 afterwards.
ConcatPaths(PathElem1, cchPathSize, PathElem2) ==
    IF IsNull(PathElem2)
    THEN [Status |-> "STATUS_SUCCESS", Dest |-> PathElem1]
    ELSE IF cchPathSize <= 1
    THEN [Status |-> "STATUS_SUCCESS", Dest |-> PathElem1]
    ELSE
      LET Elem2 == Deref(PathElem2)
          cchPathLen == Min(cchPathSize, Len(PathElem1))
      IN  IF /\ CharAt(Elem2, 0) # BSLASH
             /\ cchPathLen > 0
             /\ CharAt(PathElem1, cchPathLen - 1) # BSLASH
          THEN LET sep == RtlStringCchCatW(PathElem1, cchPathSize, <<BSLASH>>)
               IN  IF ~NT_SUCCESS(sep.Status)
                   THEN sep
                   ELSE RtlStringCchCatW(sep.Dest, cchPathSize, Elem2)
          ELSE IF /\ CharAt(Elem2, 0) = BSLASH
                  /\ cchPathLen > 0
                  /\ CharAt(PathElem1, cchPathLen - 1) = BSLASH
          THEN RtlStringCchCatW(PathElem1, cchPathSize, SkipBackslashes(Elem2))
          ELSE RtlStringCchCatW(PathElem1, cchPathSize, Elem2)

-----------------------------------------------------------------------------
(* C runtime routines used by NtPathToDiskPartComponents.                  *)

UpperCase == <<"A", "B", "C", "D", "E", "F", "G", "H", "I", "J", "K", "L", "M",
               "N", "O", "P", "Q", "R", "S", "T", "U", "V", "W", "X", "Y", "Z">>

LowerCase == <<"a", "b", "c", "d", "e", "f", "g", "h", "i", "j", "k", "l", "m",
               "n", "o", "p", "q", "r", "s", "t", "u", "v", "w", "x", "y", "z">>

\* the lower-case letter of each upper-case letter
LowerOf == [i \in 1..Len(UpperCase) |-> LowerCase[i]]

UpperLetters == {UpperCase[i] : i \in 1..Len(UpperCase)}

UpperIndex == [c \in UpperLetters |-> CHOOSE i \in 1..Len(UpperCase) : UpperCase[i] = c]

\* the lower-case letter of each upper-case letter, by letter
LowerMap == [c \in UpperLetters |-> LowerOf[UpperIndex[c]]]

towlower(c) == IF c \in DOMAIN LowerMap THEN LowerMap[c] ELSE c

Digits == <<"0", "1", "2", "3", "4", "5", "6", "7", "8", "9">>

iswdigit(c) == \E i \in 1..Len(Digits) : Digits[i] = c

DigitValue(c) == (CHOOSE i \in 1..Len(Digits) : Digits[i] = c) - 1

RECURSIVE WcsNICmpFrom(_, _, _, _, _)
WcsNICmpFrom(s, off, lit, n, i) ==
    IF i = n THEN 0
    ELSE LET c1 == towlower(CharAt(s, off + i))
             c2 == towlower(CharAt(lit, i))
         IN  IF c1 # c2 THEN 1
             ELSE IF c1 = NUL THEN 0
             ELSE WcsNICmpFrom(s, off, lit, n, i + 1)

\* _wcsnicmp(s + off, lit, n): 0 when the first n characters agree without
\* regard to case (or both strings end before), nonzero otherwise.
WcsNICmp(s, off, lit, n) == WcsNICmpFrom(s, off, lit, n, 0)

\* A ULONG is kept as its two 16-bit halves: the value is hi * 2^16 + lo.
HalfWord == 65536

ULong(hi, lo) == [hi |-> hi, lo |-> lo]

ULongZero == ULong(0, 0)

ULONG_MAX == ULong(HalfWord - 1, HalfWord - 1)

RECURSIVE WcsToULFrom(_, _, _, _)
\* the digits from offset i on, accumulated into acc; ovf once the value
\* no longer fits a ULONG
WcsToULFrom(s, i, acc, ovf) ==
    IF ~iswdigit(CharAt(s, i))
    THEN [value |-> IF ovf THEN ULONG_MAX ELSE acc, end |-> i]
    ELSE LET t  == acc.lo * 10 + DigitValue(CharAt(s, i))
             hi == acc.hi * 10 + (t \div HalfWord)
         IN  IF ovf \/ hi >= HalfWord
             THEN WcsToULFrom(s, i + 1, acc, TRUE)
             ELSE WcsToULFrom(s, i + 1, ULong(hi, t % HalfWord), FALSE)

\* wcstoul(s + off, &end, 10) on a string that has a digit at off: the value
\* of the digit run, ULONG_MAX when it is out of range, and the offset of
\* the first character after the run.
wcstoul(s, off) == WcsToULFrom(s, off, ULongZero, FALSE)

-----------------------------------------------------------------------------
(* NtPathToDiskPartComponents                                              *)

HarddiskPrefix ==
    <<BSLASH, "D", "e", "v", "i", "c", "e", BSLASH,
      "H", "a", "r", "d", "d", "i", "s", "k">>

PartitionLiteral == <<BSLASH, "P", "a", "r", "t", "i", "t", "i", "o", "n">>

OBJ_NAME_PATH_SEPARATOR == BSLASH

\* A result is the returned BOOLEAN and the content of the three output
\* slots: PathComponent is <<>> (NULL, or no slot given) or <<offset>>, a
\* pointer to NtPath + offset.
ParseFail ==
    [ret |-> FALSE, DiskNumber |-> ULongZero, PartNumber |-> ULongZero,
     PathComponent |-> NullStr]

\* The Quit label: returns the disk number and the current Path.
ParseQuit(DiskNumber, pPartNumber, Path, wantPathComponent) ==
    [ret |-> TRUE, DiskNumber |-> DiskNumber, PartNumber |-> pPartNumber,
     PathComponent |-> IF wantPathComponent THEN Ptr(Path) ELSE NullStr]

\* NtPathToDiskPartComponents that accepts any character after the disk number.
NtPathToDiskPartComponents_NoSepCheck(NtPath, wantPathComponent) ==
    IF WcsNICmp(NtPath, 0, HarddiskPrefix, 16) # 0 THEN ParseFail
    ELSE IF ~iswdigit(CharAt(NtPath, 16)) THEN ParseFail
    ELSE
      LET disk == wcstoul(NtPath, 16)
      IN  IF CharAt(NtPath, disk.end) # OBJ_NAME_PATH_SEPARATOR
          THEN ParseQuit(disk.value, ULongZero, disk.end, wantPathComponent)
          ELSE IF WcsNICmp(NtPath, disk.end, PartitionLiteral, 10) # 0
          THEN ParseQuit(disk.value, ULongZero, disk.end, wantPathComponent)
          ELSE IF ~iswdigit(CharAt(NtPath, disk.end + 10))
          THEN ParseQuit(disk.value, ULongZero, disk.end + 10, wantPathComponent)
          ELSE
            LET part == wcstoul(NtPath, disk.end + 10)
            IN  IF /\ CharAt(NtPath, part.end) # NUL
                   /\ CharAt(NtPath, part.end) # OBJ_NAME_PATH_SEPARATOR
                THEN ParseQuit(disk.value, ULongZero, part.end, wantPathComponent)
                ELSE ParseQuit(disk.value, part.value, part.end, wantPathComponent)

\* NtPathToDiskPartComponents without the store *pPartNumber = PartNumber.
NtPathToDiskPartComponents_NoPartStore(NtPath, wantPathComponent) ==
    IF WcsNICmp(NtPath, 0, HarddiskPrefix, 16) # 0 THEN ParseFail
    ELSE IF ~iswdigit(CharAt(NtPath, 16)) THEN ParseFail
    ELSE
      LET disk == wcstoul(NtPath, 16)
      IN  IF /\ CharAt(NtPath, disk.end) # NUL
             /\ CharAt(NtPath, disk.end) # OBJ_NAME_PATH_SEPARATOR
          THEN ParseFail
          ELSE IF CharAt(NtPath, disk.end) = NUL
          THEN ParseQuit(disk.value, ULongZero, disk.end, wantPathComponent)
          ELSE IF WcsNICmp(NtPath, disk.end, PartitionLiteral, 10) # 0
          THEN ParseQuit(disk.value, ULongZero, disk.end, wantPathComponent)
          ELSE IF ~iswdigit(CharAt(NtPath, disk.end + 10))
          THEN ParseQuit(disk.value, ULongZero, disk.end + 10, wantPathComponent)
          ELSE
            LET part == wcstoul(NtPath, disk.end + 10)
            IN  ParseQuit(disk.value, ULongZero, part.end, wantPathComponent)

\* NtPathToDiskPartComponents storing the disk number as soon as it is parsed.
NtPathToDiskPartComponents_EarlyDiskStore(NtPath, wantPathComponent) ==
    IF WcsNICmp(NtPath, 0, HarddiskPrefix, 16) # 0 THEN ParseFail
    ELSE IF ~iswdigit(CharAt(NtPath, 16)) THEN ParseFail
    ELSE
      LET disk == wcstoul(NtPath, 16)
      IN  IF /\ CharAt(NtPath, disk.end) # NUL
             /\ CharAt(NtPath, disk.end) # OBJ_NAME_PATH_SEPARATOR
          THEN [ParseFail EXCEPT !.DiskNumber = disk.value]
          ELSE IF CharAt(NtPath, disk.end) = NUL
          THEN ParseQuit(disk.value, ULongZero, disk.end, wantPathComponent)
          ELSE IF WcsNICmp(NtPath, disk.end, PartitionLiteral, 10) # 0
          THEN ParseQuit(disk.value, ULongZero, disk.end, wantPathComponent)
          ELSE IF ~iswdigit(CharAt(NtPath, disk.end + 10))
          THEN ParseQuit(disk.value, ULongZero, disk.end + 10, wantPathComponent)
          ELSE
            LET part == wcstoul(NtPath, disk.end + 10)
            IN  IF /\ CharAt(NtPath, part.end) # NUL
                   /\ CharAt(NtPath, part.end) # OBJ_NAME_PATH_SEPARATOR
                THEN ParseQuit(disk.value, ULongZero, part.end, wantPathComponent)
                ELSE ParseQuit(disk.value, part.value, part.end, wantPathComponent)

\* NtPathToDiskPartComponents without the check of lines 208-213.
NtPathToDiskPartComponents_KeepsPart(NtPath, wantPathComponent) ==
    IF WcsNICmp(NtPath, 0, HarddiskPrefix, 16) # 0 THEN ParseFail
    ELSE IF ~iswdigit(CharAt(NtPath, 16)) THEN ParseFail
    ELSE
      LET disk == wcstoul(NtPath, 16)
      IN  IF /\ CharAt(NtPath, disk.end) # NUL
             /\ CharAt(NtPath, disk.end) # OBJ_NAME_PATH_SEPARATOR
          THEN ParseFail
          ELSE IF CharAt(NtPath, disk.end) = NUL
          THEN ParseQuit(disk.value, ULongZero, disk.end, wantPathComponent)
          ELSE IF WcsNICmp(NtPath, disk.end, PartitionLiteral, 10) # 0
          THEN ParseQuit(disk.value, ULongZero, disk.end, wantPathComponent)
          ELSE IF ~iswdigit(CharAt(NtPath, disk.end + 10))
          THEN ParseQuit(disk.value, ULongZero, disk.end + 10, wantPathComponent)
          ELSE
            LET part == wcstoul(NtPath, disk.end + 10)
            IN  ParseQuit(disk.value, part.value, part.end, wantPathComponent)

NtPathToDiskPartComponents(NtPath, wantPathComponent) ==
    IF WcsNICmp(NtPath, 0, HarddiskPrefix, 16) # 0 THEN ParseFail
    ELSE IF ~iswdigit(CharAt(NtPath, 16)) THEN ParseFail
    ELSE
      LET disk == wcstoul(NtPath, 16)
      IN  IF /\ CharAt(NtPath, disk.end) # NUL
             /\ CharAt(NtPath, disk.end) # OBJ_NAME_PATH_SEPARATOR
          THEN ParseFail
          ELSE IF CharAt(NtPath, disk.end) = NUL
          THEN ParseQuit(disk.value, ULongZero, disk.end, wantPathComponent)
          ELSE IF WcsNICmp(NtPath, disk.end, PartitionLiteral, 10) # 0
          THEN ParseQuit(disk.value, ULongZero, disk.end, wantPathComponent)
          ELSE IF ~iswdigit(CharAt(NtPath, disk.end + 10))
          THEN ParseQuit(disk.value, ULongZero, disk.end + 10, wantPathComponent)
          ELSE
            LET part == wcstoul(NtPath, disk.end + 10)
            IN  IF /\ CharAt(NtPath, part.end) # NUL
                   /\ CharAt(NtPath, part.end) # OBJ_NAME_PATH_SEPARATOR
                THEN ParseQuit(disk.value, ULongZero, part.end, wantPathComponent)
                ELSE ParseQuit(disk.value, part.value, part.end, wantPathComponent)

-----------------------------------------------------------------------------
(* The kernel services filesup.c calls: the object namespace, the handle   *)
(* table and the address space of the calling process.                     *)

\* a name of MAX_PATH - 1 characters, the longest a FullName buffer holds
LongName == [i \in 1..(MAX_PATH - 1) |-> "a"]

\* the names of the namespace at which something may exist
NsPaths == << <<"a", BSLASH, "b">>, LongName >>

Objects == 1..Len(NsPaths)

Handles == 1..MaxHandles

Addresses == 1..MaxViews

\* a NULL handle and a NULL address
NULL == 0

FreeSlot == [type |-> "Free", obj |-> 0, access |-> {}, share |-> {}, from |-> 0]

NoView == [mapped |-> FALSE, section |-> 0]

FreeHandles(K) == {h \in Handles : K.handles[h].type = "Free"}

FreeAddresses(K) == {a \in Addresses : ~K.views[a].mapped}

\* The handle and the address the kernel hands out next: the lowest free
\* one.  Their values are opaque to filesup.c.
AllocHandle(K) == CHOOSE h \in FreeHandles(K) : \A g \in FreeHandles(K) : h <= g

AllocAddress(K) == CHOOSE a \in FreeAddresses(K) : \A b \in FreeAddresses(K) : a <= b

\* one system call of a library call: its name, the handle or address it was
\* given, what it returned (a handle, an address, a file size; NULL when
\* nothing) and its status
Sys(call, arg, result, Status) ==
    [call |-> call, arg |-> arg, result |-> result, Status |-> Status]

\* a name with every letter in lower case
FoldCase(Name) == [k \in 1..Len(Name) |-> towlower(Name[k])]

NsPathsFolded == [i \in Objects |-> FoldCase(NsPaths[i])]

\* the object a name designates, matched without regard to case (0: none)
Lookup(Name) ==
    LET folded == FoldCase(Name)
    IN  IF \E i \in Objects : NsPathsFolded[i] = folded
        THEN CHOOSE i \in Objects : NsPathsFolded[i] = folded
        ELSE 0

\* the opens of an object that are in force
OpensOf(K, obj) ==
    {K.handles[h] : h \in {g \in Handles :
                              K.handles[g].type = "File" /\ K.handles[g].obj = obj}}

\* NtOpenFile of Name, with the kind of object asked for ("dir" with
\* FILE_DIRECTORY_FILE, "file" with FILE_NON_DIRECTORY_FILE)
NtOpenFile(K, Name, DesiredAccess, ShareAccess, kind) ==
    LET obj == Lookup(Name)
    IN  IF obj = 0 \/ fs[obj] = "none"
        THEN [K |-> K, Status |-> "STATUS_OBJECT_NAME_NOT_FOUND", Handle |-> NULL]
        ELSE IF fs[obj] # kind
        THEN [K |-> K,
              Status |-> IF kind = "dir" THEN "STATUS_NOT_A_DIRECTORY"
                                         ELSE "STATUS_FILE_IS_A_DIRECTORY",
              Handle |-> NULL]
        ELSE IF \E e \in OpensOf(K, obj) :
                   ~(DesiredAccess \subseteq e.share /\ e.access \subseteq ShareAccess)
        THEN [K |-> K, Status |-> "STATUS_SHARING_VIOLATION", Handle |-> NULL]
        ELSE [K |-> [K EXCEPT !.handles[AllocHandle(K)] =
                        [type |-> "File", obj |-> obj, access |-> DesiredAccess,
                         share |-> ShareAccess, from |-> 0]],
              Status |-> "STATUS_SUCCESS", Handle |-> AllocHandle(K)]

NtClose(K, Handle) ==
    IF Handle \notin Handles \/ K.handles[Handle].type = "Free"
    THEN [K |-> K, Status |-> "STATUS_INVALID_HANDLE"]
    ELSE [K |-> [K EXCEPT !.handles[Handle] = FreeSlot],
          Status |-> "STATUS_SUCCESS"]

\* NtCreateSection backed by FileHandle; the kernel may fail it with the
\* status it chooses
NtCreateSection(K, FileHandle, Status) ==
    IF FileHandle \notin Handles \/ K.handles[FileHandle].type # "File"
    THEN [K |-> K, Status |-> "STATUS_INVALID_HANDLE", Handle |-> NULL]
    ELSE IF ~NT_SUCCESS(Status)
    THEN [K |-> K, Status |-> Status, Handle |-> NULL]
    ELSE [K |-> [K EXCEPT !.handles[AllocHandle(K)] =
                    [type |-> "Section", obj |-> K.handles[FileHandle].obj,
                     access |-> {}, share |-> {}, from |-> FileHandle]],
          Status |-> "STATUS_SUCCESS", Handle |-> AllocHandle(K)]

\* NtMapViewOfSection with no base address asked for: the kernel maps the
\* view at an address of its own, or fails with the status it chooses
NtMapViewOfSection(K, SectionHandle, Status) ==
    IF SectionHandle \notin Handles \/ K.handles[SectionHandle].type # "Section"
    THEN [K |-> K, Status |-> "STATUS_INVALID_HANDLE", Base |-> NULL]
    ELSE IF ~NT_SUCCESS(Status)
    THEN [K |-> K, Status |-> Status, Base |-> NULL]
    ELSE [K |-> [K EXCEPT !.views[AllocAddress(K)] =
                    [mapped |-> TRUE, section |-> SectionHandle]],
          Status |-> "STATUS_SUCCESS", Base |-> AllocAddress(K)]

NtUnmapViewOfSection(K, BaseAddress) ==
    IF BaseAddress \notin Addresses \/ ~K.views[BaseAddress].mapped
    THEN [K |-> K, Status |-> "STATUS_NOT_MAPPED_VIEW"]
    ELSE [K |-> [K EXCEPT !.views[BaseAddress] = NoView],
          Status |-> "STATUS_SUCCESS"]

\* The end-of-file position NtQueryInformationFile may report, as the two
\* halves of a LARGE_INTEGER.
EndOfFiles == {[HighPart |-> 0, LowPart |-> 5], [HighPart |-> 1, LowPart |-> 7]}

\* What the kernel decides during one call: the statuses of the calls that
\* can fail for its own reasons, and the size of the file.
KernelChoices ==
    [queryStatus : {"STATUS_SUCCESS", "STATUS_ACCESS_DENIED"},
     EndOfFile : EndOfFiles,
     sectionStatus : {"STATUS_SUCCESS", "STATUS_MAPPED_FILE_SIZE_ZERO"},
     mapStatus : {"STATUS_SUCCESS", "STATUS_NO_MEMORY"}]

-----------------------------------------------------------------------------
(* DoesPathExist and DoesFileExist                                         *)

\* DoesPathExist without the NtClose of line 78
DoesPathExist_NoClose(K, PathName) ==
    LET open == NtOpenFile(K, PathName, {"R"}, {"R", "W"}, "dir")
    IN  [K |-> open.K, ret |-> NT_SUCCESS(open.Status),
         trace |-> <<Sys("NtOpenFile", NULL, open.Handle, open.Status)>>]

\* The result of a library call is the kernel state it leaves, what it
\* returns, and the system calls it made, in order.
DoesPathExist(K, PathName) ==
    LET open == NtOpenFile(K, PathName, {"R"}, {"R", "W"}, "dir")
    IN  IF NT_SUCCESS(open.Status)
        THEN LET close == NtClose(open.K, open.Handle)
             IN  [K |-> close.K, ret |-> TRUE,
                  trace |-> <<Sys("NtOpenFile", NULL, open.Handle, open.Status),
                              Sys("NtClose", open.Handle, NULL, close.Status)>>]
        ELSE [K |-> K, ret |-> FALSE,
              trace |-> <<Sys("NtOpenFile", NULL, NULL, open.Status)>>]

\* FullName as lines 98-104 and 246-252 build it; the statuses of the copy
\* and of ConcatPaths are not looked at.
BuildFullName(PathName, FileName) ==
    LET copied == IF ~IsNull(PathName)
                  THEN RtlStringCchCopyW(MAX_PATH, Deref(PathName)).Dest
                  ELSE <<>>
    IN  IF ~IsNull(FileName)
        THEN ConcatPaths(copied, MAX_PATH, FileName).Dest
        ELSE copied

DoesFileExist(K, PathName, FileName) ==
    LET FullName == BuildFullName(PathName, FileName)
        open == NtOpenFile(K, FullName, {"R"}, {"R", "W"}, "file")
    IN  IF NT_SUCCESS(open.Status)
        THEN LET close == NtClose(open.K, open.Handle)
             IN  [K |-> close.K, ret |-> TRUE,
                  trace |-> <<Sys("NtOpenFile", NULL, open.Handle, open.Status),
                              Sys("NtClose", open.Handle, NULL, close.Status)>>]
        ELSE [K |-> K, ret |-> FALSE,
              trace |-> <<Sys("NtOpenFile", NULL, NULL, open.Status)>>]

-----------------------------------------------------------------------------
(* OpenAndMapFile and UnMapFile                                            *)

\* The result of OpenAndMapFile also holds the output slots: FileHandle and
\* SectionHandle are always written, BaseAddress and FileSize only where the
\* code stores them.  Each step below is given the kernel state K, the
\* output slots o and the system calls t made so far.

\* the mapping step without the NtClose of the file at line 337
OpenAndMapFile_MapView_KeepsFile(K, o, t, c) ==
    LET map == NtMapViewOfSection(K, o.SectionHandle, c.mapStatus)
    IN  IF ~NT_SUCCESS(map.Status)
        THEN [K |-> NtClose(map.K, o.SectionHandle).K,
              Status |-> map.Status,
              out |-> [o EXCEPT !.SectionHandle = NULL],
              trace |-> t \o
                  <<Sys("NtMapViewOfSection", o.SectionHandle, map.Base, map.Status),
                    Sys("NtClose", o.SectionHandle, NULL,
                        NtClose(map.K, o.SectionHandle).Status)>>]
        ELSE [K |-> map.K, Status |-> "STATUS_SUCCESS",
              out |-> [o EXCEPT !.BaseAddress = map.Base],
              trace |-> t \o <<Sys("NtMapViewOfSection", o.SectionHandle, map.Base, map.Status)>>]

\* the mapping step closing the file before the section on failure
OpenAndMapFile_MapView_FileFirst(K, o, t, c) ==
    LET map == NtMapViewOfSection(K, o.SectionHandle, c.mapStatus)
    IN  IF ~NT_SUCCESS(map.Status)
        THEN [K |-> NtClose(NtClose(map.K, o.FileHandle).K, o.SectionHandle).K,
              Status |-> map.Status,
              out |-> [o EXCEPT !.SectionHandle = NULL, !.FileHandle = NULL],
              trace |-> t \o
                  <<Sys("NtMapViewOfSection", o.SectionHandle, map.Base, map.Status),
                    Sys("NtClose", o.FileHandle, NULL,
                        NtClose(map.K, o.FileHandle).Status),
                    Sys("NtClose", o.SectionHandle, NULL,
                        NtClose(NtClose(map.K, o.FileHandle).K,
                                o.SectionHandle).Status)>>]
        ELSE [K |-> map.K, Status |-> "STATUS_SUCCESS",
              out |-> [o EXCEPT !.BaseAddress = map.Base],
              trace |-> t \o <<Sys("NtMapViewOfSection", o.SectionHandle, map.Base, map.Status)>>]

\* lines 320-343: map the section; undo the section and the file on failure
OpenAndMapFile_MapView(K, o, t, c) ==
    LET map == NtMapViewOfSection(K, o.SectionHandle, c.mapStatus)
    IN  IF ~NT_SUCCESS(map.Status)
        THEN [K |-> NtClose(NtClose(map.K, o.SectionHandle).K, o.FileHandle).K,
              Status |-> map.Status,
              out |-> [o EXCEPT !.SectionHandle = NULL, !.FileHandle = NULL],
              trace |-> t \o
                  <<Sys("NtMapViewOfSection", o.SectionHandle, map.Base, map.Status),
                    Sys("NtClose", o.SectionHandle, NULL,
                        NtClose(map.K, o.SectionHandle).Status),
                    Sys("NtClose", o.FileHandle, NULL,
                        NtClose(NtClose(map.K, o.SectionHandle).K,
                                o.FileHandle).Status)>>]
        ELSE [K |-> map.K, Status |-> "STATUS_SUCCESS",
              out |-> [o EXCEPT !.BaseAddress = map.Base],
              trace |-> t \o <<Sys("NtMapViewOfSection", o.SectionHandle, map.Base, map.Status)>>]

\* the section step without the *FileHandle = NULL of line 316
OpenAndMapFile_CreateSection_KeepsSlot(K, o, t, c) ==
    LET sec == NtCreateSection(K, o.FileHandle, c.sectionStatus)
    IN  IF ~NT_SUCCESS(sec.Status)
        THEN [K |-> NtClose(sec.K, o.FileHandle).K,
              Status |-> sec.Status,
              out |-> o,
              trace |-> t \o
                  <<Sys("NtCreateSection", o.FileHandle, sec.Handle, sec.Status),
                    Sys("NtClose", o.FileHandle, NULL,
                        NtClose(sec.K, o.FileHandle).Status)>>]
        ELSE OpenAndMapFile_MapView(
                 sec.K, [o EXCEPT !.SectionHandle = sec.Handle],
                 t \o <<Sys("NtCreateSection", o.FileHandle, sec.Handle, sec.Status)>>, c)

\* lines 302-318: create the section; close the file on failure
OpenAndMapFile_CreateSection(K, o, t, c) ==
    LET sec == NtCreateSection(K, o.FileHandle, c.sectionStatus)
    IN  IF ~NT_SUCCESS(sec.Status)
        THEN [K |-> NtClose(sec.K, o.FileHandle).K,
              Status |-> sec.Status,
              out |-> [o EXCEPT !.FileHandle = NULL],
              trace |-> t \o
                  <<Sys("NtCreateSection", o.FileHandle, sec.Handle, sec.Status),
                    Sys("NtClose", o.FileHandle, NULL,
                        NtClose(sec.K, o.FileHandle).Status)>>]
        ELSE OpenAndMapFile_MapView(
                 sec.K, [o EXCEPT !.SectionHandle = sec.Handle],
                 t \o <<Sys("NtCreateSection", o.FileHandle, sec.Handle, sec.Status)>>, c)

\* the size step treating a size of more than 32 bits as an error
OpenAndMapFile_QuerySize_RejectsLarge(K, o, t, wantFileSize, c) ==
    IF ~wantFileSize
    THEN OpenAndMapFile_CreateSection(K, o, t, c)
    ELSE IF ~NT_SUCCESS(c.queryStatus)
    THEN [K |-> NtClose(K, o.FileHandle).K,
          Status |-> c.queryStatus,
          out |-> [o EXCEPT !.FileHandle = NULL],
          trace |-> t \o
              <<Sys("NtQueryInformationFile", o.FileHandle, NULL, c.queryStatus),
                Sys("NtClose", o.FileHandle, NULL,
                    NtClose(K, o.FileHandle).Status)>>]
    ELSE IF c.EndOfFile.HighPart # 0
    THEN [K |-> NtClose(K, o.FileHandle).K,
          Status |-> "STATUS_FILE_TOO_LARGE",
          out |-> [o EXCEPT !.FileHandle = NULL],
          trace |-> t \o
              <<Sys("NtQueryInformationFile", o.FileHandle, c.EndOfFile,
                    c.queryStatus),
                Sys("NtClose", o.FileHandle, NULL,
                    NtClose(K, o.FileHandle).Status)>>]
    ELSE OpenAndMapFile_CreateSection(
             K, [o EXCEPT !.FileSize = c.EndOfFile.LowPart],
             t \o <<Sys("NtQueryInformationFile", o.FileHandle, c.EndOfFile,
                        c.queryStatus)>>, c)

\* lines 277-300: query the size if it is asked for; close the file on failure
OpenAndMapFile_QuerySize(K, o, t, wantFileSize, c) ==
    IF ~wantFileSize
    THEN OpenAndMapFile_CreateSection(K, o, t, c)
    ELSE IF ~NT_SUCCESS(c.queryStatus)
    THEN [K |-> NtClose(K, o.FileHandle).K,
          Status |-> c.queryStatus,
          out |-> [o EXCEPT !.FileHandle = NULL],
          trace |-> t \o
              <<Sys("NtQueryInformationFile", o.FileHandle, NULL, c.queryStatus),
                Sys("NtClose", o.FileHandle, NULL,
                    NtClose(K, o.FileHandle).Status)>>]
    ELSE OpenAndMapFile_CreateSection(
             K, [o EXCEPT !.FileSize = c.EndOfFile.LowPart],
             t \o <<Sys("NtQueryInformationFile", o.FileHandle, c.EndOfFile,
                        c.queryStatus)>>, c)

\* lines 262-275: the slots are cleared and the file is opened
OpenAndMapFile_Opened(open, o, wantFileSize, c) ==
    IF ~NT_SUCCESS(open.Status)
    THEN [K |-> open.K, Status |-> open.Status, out |-> o,
          trace |-> <<Sys("NtOpenFile", NULL, open.Handle, open.Status)>>]
    ELSE OpenAndMapFile_QuerySize(
             open.K, [o EXCEPT !.FileHandle = open.Handle],
             <<Sys("NtOpenFile", NULL, open.Handle, open.Status)>>, wantFileSize, c)

\* OpenAndMapFile opening with FILE_SHARE_READ | FILE_SHARE_WRITE
OpenAndMapFile_ShareWrite(K, PathName, FileName, wantFileSize, o, c) ==
    OpenAndMapFile_Opened(
        NtOpenFile(K, BuildFullName(PathName, FileName), {"R"}, {"R", "W"}, "file"),
        [o EXCEPT !.FileHandle = NULL, !.SectionHandle = NULL],
        wantFileSize, c)

OpenAndMapFile(K, PathName, FileName, wantFileSize, o, c) ==
    OpenAndMapFile_Opened(
        NtOpenFile(K, BuildFullName(PathName, FileName), {"R"}, {"R"}, "file"),
        [o EXCEPT !.FileHandle = NULL, !.SectionHandle = NULL],
        wantFileSize, c)

\* UnMapFile returning at the first failure
UnMapFile_ShortCircuit(K, SectionHandle, BaseAddress) ==
    LET unmap == NtUnmapViewOfSection(K, BaseAddress)
        close == NtClose(unmap.K, SectionHandle)
    IN  IF ~NT_SUCCESS(unmap.Status)
        THEN [K |-> unmap.K, ret |-> FALSE,
              trace |-> <<Sys("NtUnmapViewOfSection", BaseAddress, NULL, unmap.Status)>>]
        ELSE [K |-> close.K, ret |-> NT_SUCCESS(close.Status),
              trace |-> <<Sys("NtUnmapViewOfSection", BaseAddress, NULL, unmap.Status),
                          Sys("NtClose", SectionHandle, NULL, close.Status)>>]

\* UnMapFile closing the file behind the section as well
UnMapFile_ClosesFile(K, SectionHandle, BaseAddress) ==
    LET unmap == NtUnmapViewOfSection(K, BaseAddress)
        file == IF SectionHandle \in Handles
                THEN unmap.K.handles[SectionHandle].from ELSE NULL
        close == NtClose(unmap.K, SectionHandle)
    IN  [K |-> NtClose(close.K, file).K,
         ret |-> NT_SUCCESS(unmap.Status) /\ NT_SUCCESS(close.Status),
         trace |-> <<Sys("NtUnmapViewOfSection", BaseAddress, NULL, unmap.Status),
                     Sys("NtClose", SectionHandle, NULL, close.Status),
                     Sys("NtClose", file, NULL, NtClose(close.K, file).Status)>>]

\* UnMapFile without the NtUnmapViewOfSection of line 354
UnMapFile_KeepsView(K, SectionHandle, BaseAddress) ==
    LET close == NtClose(K, SectionHandle)
    IN  [K |-> close.K,
         ret |-> NT_SUCCESS(close.Status),
         trace |-> <<Sys("NtUnmapViewOfSection", BaseAddress, NULL, "STATUS_SUCCESS"),
                     Sys("NtClose", SectionHandle, NULL, close.Status)>>]

\* UnMapFile without the Success = FALSE of lines 359 and 366
UnMapFile_AlwaysTrue(K, SectionHandle, BaseAddress) ==
    LET unmap == NtUnmapViewOfSection(K, BaseAddress)
        close == NtClose(unmap.K, SectionHandle)
    IN  [K |-> close.K,
         ret |-> TRUE,
         trace |-> <<Sys("NtUnmapViewOfSection", BaseAddress, NULL, unmap.Status),
                     Sys("NtClose", SectionHandle, NULL, close.Status)>>]

UnMapFile(K, SectionHandle, BaseAddress) ==
    LET unmap == NtUnmapViewOfSection(K, BaseAddress)
        close == NtClose(unmap.K, SectionHandle)
    IN  [K |-> close.K,
         ret |-> NT_SUCCESS(unmap.Status) /\ NT_SUCCESS(close.Status),
         trace |-> <<Sys("NtUnmapViewOfSection", BaseAddress, NULL, unmap.Status),
                     Sys("NtClose", SectionHandle, NULL, close.Status)>>]

-----------------------------------------------------------------------------
(* Specification Spec: a process that calls the probes, OpenAndMapFile and *)
(* UnMapFile and closes file handles, while files and directories are      *)
(* created and deleted in the namespace.                                   *)

Kernel == [handles |-> handles, views |-> views]

Idle == [fn |-> "none"]

NoOutput ==
    [FileHandle |-> NULL, SectionHandle |-> NULL, BaseAddress |-> NULL, FileSize |-> 0]

KernelInit ==
    /\ fs = [i \in Objects |-> "none"]
    /\ handles = [h \in Handles |-> FreeSlot]
    /\ views = [a \in Addresses |-> NoView]
    /\ out = NoOutput
    /\ last = Idle

Init ==
    /\ KernelInit
    /\ join = NoJoin
    /\ parse = NoParse

\* the path arguments the calls are tried with: a directory and a file name
NamePairs ==
    << <<NullStr, NullStr>>,
       <<Ptr(<<"a">>), Ptr(<<"b">>)>>,
       <<Ptr(<<"A", BSLASH>>), Ptr(<<BSLASH, "B">>)>>,
       <<Ptr(LongName), Ptr(<<"b">>)>> >>

PathNames == << <<"a", BSLASH, "b">>, <<"A", BSLASH, "B">>, LongName >>

\* What the kernel may choose for a call; the status of a call that is not
\* reached and a size that is not stored do not matter, and one value of each
\* is kept.
Choices(wantFileSize) ==
    {c \in KernelChoices :
        /\ ~wantFileSize =>
              NT_SUCCESS(c.queryStatus) /\ c.EndOfFile.HighPart = 0
        /\ ~NT_SUCCESS(c.queryStatus) =>
              NT_SUCCESS(c.sectionStatus) /\ c.EndOfFile.HighPart = 0
        /\ ~NT_SUCCESS(c.sectionStatus) => NT_SUCCESS(c.mapStatus)}

\* a call is made while the handles and the address it may need are left
CanOpen == FreeHandles(Kernel) # {}

CanMap == Cardinality(FreeHandles(Kernel)) >= 2 /\ FreeAddresses(Kernel) # {}

Create(obj, kind) ==
    /\ fs[obj] = "none"
    /\ fs' = [fs EXCEPT ![obj] = kind]
    /\ last' = Idle
    /\ UNCHANGED <<handles, views, out, join, parse>>

\* a name is deleted once nothing holds it open
Delete(obj) ==
    /\ fs[obj] # "none"
    /\ OpensOf(Kernel, obj) = {}
    /\ \A h \in Handles : ~(handles[h].type = "Section" /\ handles[h].obj = obj)
    /\ fs' = [fs EXCEPT ![obj] = "none"]
    /\ last' = Idle
    /\ UNCHANGED <<handles, views, out, join, parse>>

CallDoesPathExist ==
    /\ CanOpen
    /\ \E n \in 1..Len(PathNames) :
       \E r \in {DoesPathExist(Kernel, PathNames[n])} :
            /\ handles' = r.K.handles
            /\ views' = r.K.views
            /\ last' = [fn |-> "DoesPathExist", names |-> n,
                        ret |-> r.ret, trace |-> r.trace]
            /\ UNCHANGED <<fs, out, join, parse>>

CallDoesFileExist ==
    /\ CanOpen
    /\ \E n \in 1..Len(NamePairs) :
       \E r \in {DoesFileExist(Kernel, NamePairs[n][1], NamePairs[n][2])} :
            /\ handles' = r.K.handles
            /\ views' = r.K.views
            /\ last' = [fn |-> "DoesFileExist", names |-> n,
                        ret |-> r.ret, trace |-> r.trace]
            /\ UNCHANGED <<fs, out, join, parse>>

CallOpenAndMapFile ==
    /\ CanMap
    /\ \E n \in 1..Len(NamePairs), wantFileSize \in BOOLEAN :
       \E r \in {OpenAndMapFile(Kernel, NamePairs[n][1], NamePairs[n][2],
                                wantFileSize, out, c) : c \in Choices(wantFileSize)} :
            /\ handles' = r.K.handles
            /\ views' = r.K.views
            /\ out' = r.out
            /\ last' = [fn |-> "OpenAndMapFile", names |-> n,
                        wantFileSize |-> wantFileSize,
                        Status |-> r.Status, trace |-> r.trace]
            /\ UNCHANGED <<fs, join, parse>>

\* the caller passes what its output slots hold, or NULL; repeat tells that
\* the call is given the section handle and the address of the call before
\* it, an UnMapFile that returned TRUE
CallUnMapFile ==
    \E SectionHandle \in {NULL, out.SectionHandle},
       BaseAddress \in {NULL, out.BaseAddress} :
       \E r \in {UnMapFile(Kernel, SectionHandle, BaseAddress)} :
            /\ handles' = r.K.handles
            /\ views' = r.K.views
            /\ last' = [fn |-> "UnMapFile", SectionHandle |-> SectionHandle,
                        BaseAddress |-> BaseAddress, ret |-> r.ret,
                        trace |-> r.trace,
                        repeat |-> /\ last.fn = "UnMapFile"
                                   /\ last.ret
                                   /\ last.SectionHandle = SectionHandle
                                   /\ last.BaseAddress = BaseAddress]
            /\ UNCHANGED <<fs, out, join, parse>>

\* the caller closes a file handle it holds
CallerCloseFile ==
    \E h \in Handles :
        /\ handles[h].type = "File"
        /\ handles' = NtClose(Kernel, h).K.handles
        /\ last' = Idle
        /\ UNCHANGED <<fs, views, out, join, parse>>

\* another process opens a file by name, asking for read or for write access
\* and sharing everything, and closes it at once; its handle is taken from
\* the same table
OtherProcessOpens(obj, DesiredAccess) ==
    /\ CanOpen
    /\ \E open \in {NtOpenFile(Kernel, NsPaths[obj], DesiredAccess, {"R", "W"}, "file")} :
          last' = [fn |-> "OtherProcessOpens", obj |-> obj,
                   DesiredAccess |-> DesiredAccess, Status |-> open.Status]
    /\ UNCHANGED <<fs, handles, views, out, join, parse>>

Next ==
    \/ \E obj \in Objects, kind \in {"file", "dir"} : Create(obj, kind)
    \/ \E obj \in Objects : Delete(obj)
    \/ CallDoesPathExist
    \/ CallDoesFileExist
    \/ CallOpenAndMapFile
    \/ CallUnMapFile
    \/ CallerCloseFile
    \/ \E obj \in Objects, DesiredAccess \in {{"R"}, {"W"}} :
          OtherProcessOpens(obj, DesiredAccess)

Spec == Init /\ [][Next]_vars

-----------------------------------------------------------------------------
(* Specification SpecJoin: ConcatPaths applied to every bounded input.     *)

JoinAlphabet == {"a", "b", BSLASH}

\* A buffer of cchPathSize characters holds a terminated string.
JoinInputs ==
    {[PathElem1 |-> b, cchPathSize |-> c, PathElem2 |-> a] :
        b \in StringsUpTo(JoinAlphabet, MaxBaseLen),
        c \in 1..MaxCap,
        a \in {NullStr} \cup {Ptr(s) : s \in StringsUpTo(JoinAlphabet, MaxAddLen)}}

InitJoin ==
    /\ \E in \in JoinInputs :
          /\ Len(in.PathElem1) <= in.cchPathSize - 1
          /\ join = [called |-> FALSE, in |-> in]
    /\ parse = NoParse
    /\ KernelInit

CallConcatPaths ==
    /\ join.called = FALSE
    /\ join' = [called |-> TRUE, in |-> join.in,
                res |-> ConcatPaths(join.in.PathElem1, join.in.cchPathSize,
                                    join.in.PathElem2)]
    /\ UNCHANGED <<parse, kernel>>

NextJoin == CallConcatPaths

SpecJoin == InitJoin /\ [][NextJoin]_vars

-----------------------------------------------------------------------------
(* Specification SpecParse: the parser applied to every bounded input, an  *)
(* input being a prefix, a digit run, a middle, a digit run and a tail.    *)

ParsePrefixes ==
    { HarddiskPrefix,
      <<BSLASH, "D", "E", "V", "I", "C", "E", BSLASH,
        "H", "A", "R", "D", "D", "I", "S", "K">>,
      <<BSLASH, "d", "e", "v", "i", "c", "e", BSLASH,
        "h", "a", "r", "d", "d", "i", "s", "k">>,
      <<BSLASH, "D", "e", "v", "i", "c", "e", BSLASH, "O", "t", "h", "e", "r">>,
      <<BSLASH, "D", "e", "v", "i", "c", "e", BSLASH,
        "H", "a", "r", "d", "d", "i", "s">>,
      <<" ", BSLASH, "D", "e", "v", "i", "c", "e", BSLASH,
        "H", "a", "r", "d", "d", "i", "s", "k">>,
      <<>> }

ParseDigitRuns ==
    { <<>>, <<"0">>, <<"1">>, <<"3">>, <<"0", "0", "7">>,
      <<"4", "2", "9", "4", "9", "6", "7", "2", "9", "5">>,
      <<"4", "2", "9", "4", "9", "6", "7", "2", "9", "6">>,
      <<"9", "9", "9", "9", "9", "9", "9", "9", "9", "9", "9">> }

ParseMiddles ==
    { <<>>, PartitionLiteral,
      <<BSLASH, "p", "A", "R", "T", "I", "T", "I", "O", "N">>,
      <<BSLASH, "P", "a", "r", "t", "i", "t", "i", "o">>,
      <<"P", "a", "r", "t", "i", "t", "i", "o", "n">> }

ParseTailAlphabet == {BSLASH, "x", "2"}

ParseInputs ==
    {[NtPath |-> p \o d \o m \o e \o t, wantPathComponent |-> w] :
        p \in ParsePrefixes, d \in ParseDigitRuns, m \in ParseMiddles,
        e \in ParseDigitRuns, t \in StringsUpTo(ParseTailAlphabet, MaxTailLen),
        w \in BOOLEAN}

InitParse ==
    /\ \E in \in ParseInputs : parse = [called |-> FALSE, in |-> in]
    /\ join = NoJoin
    /\ KernelInit

CallNtPathToDiskPartComponents ==
    /\ parse.called = FALSE
    /\ parse' = [called |-> TRUE, in |-> parse.in,
                 res |-> NtPathToDiskPartComponents(parse.in.NtPath,
                                                    parse.in.wantPathComponent)]
    /\ UNCHANGED <<join, kernel>>

NextParse == CallNtPathToDiskPartComponents

SpecParse == InitParse /\ [][NextParse]_vars

-----------------------------------------------------------------------------
(* Properties of ConcatPaths (under SpecJoin).                             *)

RECURSIVE StripLeadingSeparators(_)
StripLeadingSeparators(s) ==
    IF Len(s) > 0 /\ Head(s) = BSLASH THEN StripLeadingSeparators(Tail(s)) ELSE s

\* The separator policy of the path joiner, as the specification words it.
PolicyJoin(base, addition) ==
    IF /\ (Len(addition) = 0 \/ Head(addition) # BSLASH)
       /\ Len(base) > 0
       /\ base[Len(base)] # BSLASH
    THEN base \o <<BSLASH>> \o addition
    ELSE IF /\ Len(addition) > 0 /\ Head(addition) = BSLASH
            /\ Len(base) > 0 /\ base[Len(base)] = BSLASH
    THEN base \o StripLeadingSeparators(addition)
    ELSE base \o addition

JoinFits(in) ==
    Len(PolicyJoin(in.PathElem1, Deref(in.PathElem2))) <= in.cchPathSize - 1

\* C4 as stated: for every base, capacity and addition the length of base
\* after the call is at most capacity - 1, and a joined result that does not
\* fit makes the call return an error status instead of success.
C4_Original ==
    join.called =>
        /\ Len(join.res.Dest) <= join.in.cchPathSize - 1
        /\ (~IsNull(join.in.PathElem2) /\ ~JoinFits(join.in)
               => ~NT_SUCCESS(join.res.Status))

\* C4 amended: the length of base after the call is at most capacity - 1 for
\* every input; with a capacity of at least 2 a joined result that does not
\* fit returns STATUS_BUFFER_OVERFLOW; with a capacity of at most 1 the call
\* returns success and leaves base as it was.
C4_NoOverflow ==
    join.called =>
        /\ Len(join.res.Dest) <= join.in.cchPathSize - 1
        /\ (join.in.cchPathSize >= 2 /\ ~IsNull(join.in.PathElem2)
              /\ ~JoinFits(join.in)
               => join.res.Status = "STATUS_BUFFER_OVERFLOW")
        /\ (join.in.cchPathSize <= 1
               => /\ NT_SUCCESS(join.res.Status)
                  /\ join.res.Dest = join.in.PathElem1)

\* An addition longer than the whole buffer was refused with the buffer full.
C4_Witness ==
    /\ join.called
    /\ ~IsNull(join.in.PathElem2)
    /\ Len(Deref(join.in.PathElem2)) > join.in.cchPathSize
    /\ join.in.cchPathSize >= 2
    /\ join.res.Status = "STATUS_BUFFER_OVERFLOW"
    /\ Len(join.res.Dest) = join.in.cchPathSize - 1

\* C6: when the joined result fits in the buffer, ConcatPaths succeeds and
\* base holds the result of the separator policy: one separator inserted
\* when neither side has one, the leading separators of the addition dropped
\* when both sides have one, plain concatenation otherwise.
C6_SeparatorPolicy ==
    (join.called /\ ~IsNull(join.in.PathElem2) /\ JoinFits(join.in)) =>
        /\ NT_SUCCESS(join.res.Status)
        /\ join.res.Dest = PolicyJoin(join.in.PathElem1, Deref(join.in.PathElem2))

\* join("a\", "\b") gave "a\b".
C6_Witness ==
    /\ join.called
    /\ join.in.PathElem1 = <<"a", BSLASH>>
    /\ join.in.PathElem2 = Ptr(<<BSLASH, "b">>)
    /\ NT_SUCCESS(join.res.Status)
    /\ join.res.Dest = <<"a", BSLASH, "b">>

-----------------------------------------------------------------------------
(* Properties of NtPathToDiskPartComponents (under SpecParse).             *)

IsDigitChar(c) == c \in {"0", "1", "2", "3", "4", "5", "6", "7", "8", "9"}

SameNoCase(a, b) ==
    /\ Len(a) = Len(b)
    /\ \A i \in 1..Len(a) : towlower(a[i]) = towlower(b[i])

\* s has the literal lit, in any case, at positions from + 1 .. from + Len(lit)
HasLiteralAt(s, from, lit) ==
    /\ Len(s) >= from + Len(lit)
    /\ SameNoCase(SubSeq(s, from + 1, from + Len(lit)), lit)

\* the position of the last digit of the digit run that starts after from
\* (from itself when no digit follows)
DigitRunEnd(s, from) ==
    CHOOSE k \in from..Len(s) :
        /\ \A i \in (from + 1)..k : IsDigitChar(s[i])
        /\ (k = Len(s) \/ ~IsDigitChar(s[k + 1]))

RECURSIVE StripLeadingZeros(_)
StripLeadingZeros(d) ==
    IF Len(d) > 1 /\ Head(d) = "0" THEN StripLeadingZeros(Tail(d)) ELSE d

ULongDivMod10(u) ==
    LET t == (u.hi % 10) * HalfWord + u.lo
    IN  [q |-> ULong(u.hi \div 10, t \div 10), r |-> t % 10]

RECURSIVE ULongDecimalFrom(_, _)
ULongDecimalFrom(u, acc) ==
    IF u = ULongZero THEN acc
    ELSE LET dm == ULongDivMod10(u)
         IN  ULongDecimalFrom(dm.q, <<Digits[dm.r + 1]>> \o acc)

\* the decimal numeral of a ULONG, without leading zeros
ULongDecimal(u) == IF u = ULongZero THEN <<"0">> ELSE ULongDecimalFrom(u, <<>>)

\* the ULONG u is the number the digit run d writes
IsNumber(u, d) == ULongDecimal(u) = StripLeadingZeros(d)

MaxULongDecimal == <<"4", "2", "9", "4", "9", "6", "7", "2", "9", "5">>

RECURSIVE DecimalLeq(_, _)
\* a <= b for two numerals of the same length
DecimalLeq(a, b) ==
    IF Len(a) = 0 THEN TRUE
    ELSE IF Head(a) # Head(b) THEN DigitValue(Head(a)) < DigitValue(Head(b))
    ELSE DecimalLeq(Tail(a), Tail(b))

\* the number the digit run d writes is at most 2^32 - 1
FitsULong(d) ==
    LET c == StripLeadingZeros(d)
    IN  \/ Len(c) < Len(MaxULongDecimal)
        \/ Len(c) = Len(MaxULongDecimal) /\ DecimalLeq(c, MaxULongDecimal)

\* the input begins with \Device\Harddisk and a digit
HasDiskNumber(s) ==
    /\ HasLiteralAt(s, 0, HarddiskPrefix)
    /\ IsDigitChar(CharAt(s, Len(HarddiskPrefix)))

DiskEnd(s) == DigitRunEnd(s, Len(HarddiskPrefix))

DiskDigits(s) == SubSeq(s, Len(HarddiskPrefix) + 1, DiskEnd(s))

\* the input is \Device\Harddisk<N>\Partition, whatever follows
HasPartitionLiteral(s) ==
    /\ HasDiskNumber(s)
    /\ HasLiteralAt(s, DiskEnd(s), PartitionLiteral)

PartStart(s) == DiskEnd(s) + Len(PartitionLiteral)

PartEnd(s) == DigitRunEnd(s, PartStart(s))

PartDigits(s) == SubSeq(s, PartStart(s) + 1, PartEnd(s))

\* the input is \Device\Harddisk<N>\Partition<M> followed by the end of the
\* string or by a backslash
IsFullLocator(s) ==
    /\ HasPartitionLiteral(s)
    /\ IsDigitChar(CharAt(s, PartStart(s)))
    /\ CharAt(s, PartEnd(s)) \in {NUL, BSLASH}

\* the string the returned PathComponent points to
Remainder(p) == Advance(p.in.NtPath, Deref(p.res.PathComponent))

\* C3 as stated: the parser fails if and only if the prefix is missing or no
\* digit follows it.
C3_Original ==
    parse.called =>
        (parse.res.ret = FALSE <=> ~HasDiskNumber(parse.in.NtPath))

\* C3 amended: the parser fails if and only if the prefix is missing, or no
\* digit follows it, or the character after the disk number is neither the
\* end of the string nor a backslash.
C3_FailureCases ==
    parse.called =>
        (parse.res.ret = FALSE <=>
            \/ ~HasDiskNumber(parse.in.NtPath)
            \/ CharAt(parse.in.NtPath, DiskEnd(parse.in.NtPath))
                   \notin {NUL, BSLASH})

\* A disk number followed by a character other than a backslash was refused.
C3_Witness ==
    /\ parse.called
    /\ HasDiskNumber(parse.in.NtPath)
    /\ CharAt(parse.in.NtPath, DiskEnd(parse.in.NtPath)) = "x"
    /\ parse.res.ret = FALSE

\* C7 as stated: for every input \Device\Harddisk<N>\Partition<M> followed
\* by the end of the string or a backslash, the parser succeeds with disk
\* number N, partition number M and the remainder that follows M.
C7_Original ==
    (parse.called /\ IsFullLocator(parse.in.NtPath)) =>
        /\ parse.res.ret = TRUE
        /\ IsNumber(parse.res.DiskNumber, DiskDigits(parse.in.NtPath))
        /\ IsNumber(parse.res.PartNumber, PartDigits(parse.in.NtPath))
        /\ parse.in.wantPathComponent
              => parse.res.PathComponent = Ptr(PartEnd(parse.in.NtPath))

\* C7 amended: the same for the inputs whose N and M are at most 2^32 - 1,
\* the largest number a ULONG output holds.
C7_FullLocator ==
    (/\ parse.called /\ IsFullLocator(parse.in.NtPath)
     /\ FitsULong(DiskDigits(parse.in.NtPath))
     /\ FitsULong(PartDigits(parse.in.NtPath))) =>
        /\ parse.res.ret = TRUE
        /\ IsNumber(parse.res.DiskNumber, DiskDigits(parse.in.NtPath))
        /\ IsNumber(parse.res.PartNumber, PartDigits(parse.in.NtPath))
        /\ parse.in.wantPathComponent
              => /\ parse.res.PathComponent = Ptr(PartEnd(parse.in.NtPath))
                 /\ Remainder(parse) =
                        Advance(parse.in.NtPath, PartEnd(parse.in.NtPath))

\* \DEVICE\HARDDISK1\Partition3\x gave disk 1, partition 3, remainder \x.
C7_Witness ==
    /\ parse.called
    /\ parse.in.NtPath =
          <<BSLASH, "D", "E", "V", "I", "C", "E", BSLASH,
            "H", "A", "R", "D", "D", "I", "S", "K", "1">>
          \o PartitionLiteral \o <<"3", BSLASH, "x">>
    /\ parse.in.wantPathComponent
    /\ parse.res.ret = TRUE
    /\ parse.res.DiskNumber = ULong(0, 1)
    /\ parse.res.PartNumber = ULong(0, 3)
    /\ Remainder(parse) = <<BSLASH, "x">>

\* C8: for an input \Device\Harddisk<N>\Partition whose \Partition literal
\* is not followed by a digit, the parser succeeds with disk number N,
\* partition number 0 and a remainder that begins at the \Partition literal.
C8_RemainderAtPartitionLiteral ==
    (/\ parse.called /\ HasPartitionLiteral(parse.in.NtPath)
     /\ FitsULong(DiskDigits(parse.in.NtPath))
     /\ ~IsDigitChar(CharAt(parse.in.NtPath, PartStart(parse.in.NtPath)))) =>
        /\ parse.res.ret = TRUE
        /\ IsNumber(parse.res.DiskNumber, DiskDigits(parse.in.NtPath))
        /\ parse.res.PartNumber = ULongZero
        /\ parse.in.wantPathComponent
              => parse.res.PathComponent = Ptr(DiskEnd(parse.in.NtPath))

-----------------------------------------------------------------------------
(* Properties of the probes, OpenAndMapFile and UnMapFile (under Spec).    *)

FileHandlesOf(hs) == {h \in Handles : hs[h].type = "File"}

SectionHandlesOf(hs) == {h \in Handles : hs[h].type = "Section"}

ViewsOf(vs) == {a \in Addresses : vs[a].mapped}

\* the system calls of a trace that acquire a handle, and those that map a view
Acquires(tr) ==
    {i \in 1..Len(tr) : /\ tr[i].call \in {"NtOpenFile", "NtCreateSection"}
                        /\ NT_SUCCESS(tr[i].Status)}

Maps(tr) ==
    {i \in 1..Len(tr) : tr[i].call = "NtMapViewOfSection" /\ NT_SUCCESS(tr[i].Status)}

\* C1: when OpenAndMapFile returns an error, every handle an earlier step of
\* the call acquired has been closed by a later step of the call, no view was
\* mapped, and the file handles, section handles and views outstanding are
\* those outstanding before the call.
C1_ErrorPathsRelease ==
    [][(last'.fn = "OpenAndMapFile" /\ ~NT_SUCCESS(last'.Status)) =>
          /\ \A i \in Acquires(last'.trace) :
                \E j \in (i + 1)..Len(last'.trace) :
                    /\ last'.trace[j].call = "NtClose"
                    /\ last'.trace[j].arg = last'.trace[i].result
                    /\ NT_SUCCESS(last'.trace[j].Status)
          /\ Maps(last'.trace) = {}
          /\ FileHandlesOf(handles') = FileHandlesOf(handles)
          /\ SectionHandlesOf(handles') = SectionHandlesOf(handles)
          /\ ViewsOf(views') = ViewsOf(views)]_vars

\* the mapping failed after the file was opened and the section created
C1_Witness ==
    /\ last.fn = "OpenAndMapFile"
    /\ last.Status = "STATUS_NO_MEMORY"
    /\ Cardinality(Acquires(last.trace)) = 2
    /\ FileHandlesOf(handles) = {}
    /\ SectionHandlesOf(handles) = {}

\* C2: UnMapFile makes two system calls, the unmapping of BaseAddress and
\* then the close of SectionHandle, whatever the first returned; a section
\* handle that was open is closed and a view that was mapped is unmapped; and
\* it returns TRUE exactly when both calls succeeded.
C2_BothStepsAlways ==
    [][last'.fn = "UnMapFile" =>
          /\ Len(last'.trace) = 2
          /\ last'.trace[1].call = "NtUnmapViewOfSection"
          /\ last'.trace[1].arg = last'.BaseAddress
          /\ last'.trace[2].call = "NtClose"
          /\ last'.trace[2].arg = last'.SectionHandle
          /\ last'.ret <=> (/\ NT_SUCCESS(last'.trace[1].Status)
                            /\ NT_SUCCESS(last'.trace[2].Status))
          /\ last'.SectionHandle \in SectionHandlesOf(handles) =>
                handles'[last'.SectionHandle] = FreeSlot
          /\ last'.BaseAddress \in ViewsOf(views) =>
                views'[last'.BaseAddress] = NoView]_vars

\* the unmapping failed and the section was closed all the same
C2_Witness ==
    /\ last.fn = "UnMapFile"
    /\ ~NT_SUCCESS(last.trace[1].Status)
    /\ NT_SUCCESS(last.trace[2].Status)
    /\ ~last.ret

\* C5: a probe makes one NtOpenFile; it makes one NtClose, of the handle the
\* open returned, exactly when the open succeeded; it returns TRUE exactly
\* when the open succeeded; and it leaves the handles and the views as they
\* were, so that no sequence of probes changes the number of open handles.
C5_ProbesRetainNothing ==
    [][last'.fn \in {"DoesPathExist", "DoesFileExist"} =>
          /\ {i \in 1..Len(last'.trace) : last'.trace[i].call = "NtOpenFile"} = {1}
          /\ last'.ret <=> NT_SUCCESS(last'.trace[1].Status)
          /\ IF NT_SUCCESS(last'.trace[1].Status)
             THEN /\ Len(last'.trace) = 2
                  /\ last'.trace[2].call = "NtClose"
                  /\ last'.trace[2].arg = last'.trace[1].result
                  /\ NT_SUCCESS(last'.trace[2].Status)
             ELSE Len(last'.trace) = 1
          /\ handles' = handles
          /\ views' = views]_vars

\* a probe found its object while the caller held a file handle
C5_Witness ==
    /\ last.fn \in {"DoesPathExist", "DoesFileExist"}
    /\ last.ret
    /\ FileHandlesOf(handles) # {}

\* the status of the ConcatPaths of line 252 for a pair of names
FullNameStatus(PathName, FileName) ==
    LET copied == IF ~IsNull(PathName)
                  THEN RtlStringCchCopyW(MAX_PATH, Deref(PathName)).Dest
                  ELSE <<>>
    IN  IF ~IsNull(FileName)
        THEN ConcatPaths(copied, MAX_PATH, FileName).Status
        ELSE "STATUS_SUCCESS"

\* C9: when the ConcatPaths of the directory and the file name fails for
\* want of room, OpenAndMapFile returns an error status, and the call has
\* opened no file, created no section and mapped no view.
C9_LengthExceededReported ==
    (/\ last.fn = "OpenAndMapFile"
     /\ ~NT_SUCCESS(FullNameStatus(NamePairs[last.names][1],
                                   NamePairs[last.names][2]))) =>
        /\ ~NT_SUCCESS(last.Status)
        /\ Acquires(last.trace) = {}
        /\ Maps(last.trace) = {}

\* C10: UnMapFile leaves every open file handle as it was, the one
\* OpenAndMapFile returned among them: it closes nothing but SectionHandle.
C10_FileHandleUntouched ==
    [][last'.fn = "UnMapFile" =>
          /\ \A h \in FileHandlesOf(handles) : handles'[h] = handles[h]
          /\ \A h \in Handles \ {last'.SectionHandle} : handles'[h] = handles[h]]_vars

\* the mapping OpenAndMapFile returned was undone and its file is still open
C10_Witness ==
    /\ last.fn = "UnMapFile"
    /\ last.SectionHandle = out.SectionHandle
    /\ last.BaseAddress = out.BaseAddress
    /\ last.ret
    /\ out.FileHandle \in FileHandlesOf(handles)

\* C11 as stated: after an UnMapFile in which both steps succeeded, none of
\* the file handle, the section handle and the view that OpenAndMapFile
\* returned remains allocated.
C11_Original ==
    (last.fn = "UnMapFile" /\ last.ret) =>
        /\ out.FileHandle \notin FileHandlesOf(handles)
        /\ last.SectionHandle \notin SectionHandlesOf(handles)
        /\ last.BaseAddress \notin ViewsOf(views)

\* C11 amended: an UnMapFile in which both steps succeeded was given a live
\* section handle and a mapped view, and destroys these two; every other
\* handle, the file handle OpenAndMapFile returned among them, stays as it
\* was until the caller closes it.
C11_SectionAndViewDestroyed ==
    [][(last'.fn = "UnMapFile" /\ last'.ret) =>
          /\ last'.SectionHandle \in SectionHandlesOf(handles)
          /\ last'.BaseAddress \in ViewsOf(views)
          /\ SectionHandlesOf(handles') =
                SectionHandlesOf(handles) \ {last'.SectionHandle}
          /\ ViewsOf(views') = ViewsOf(views) \ {last'.BaseAddress}
          /\ FileHandlesOf(handles') = FileHandlesOf(handles)]_vars

\* the section and the view are gone and the file handle is the only
\* resource left
C11_Witness ==
    /\ last.fn = "UnMapFile"
    /\ last.ret
    /\ SectionHandlesOf(handles) = {}
    /\ ViewsOf(views) = {}
    /\ FileHandlesOf(handles) = {out.FileHandle}

\* the size query of a call: the second system call of a trace, when it is
\* the NtQueryInformationFile and it succeeded
SizeQueried(l) ==
    /\ l.fn = "OpenAndMapFile"
    /\ l.wantFileSize
    /\ Len(l.trace) >= 2
    /\ l.trace[2].call = "NtQueryInformationFile"
    /\ NT_SUCCESS(l.trace[2].Status)

\* C12: when the size is asked for and the size query succeeds, FileSize is
\* the low 32 bits of the end-of-file position (the position modulo 2^32),
\* whatever its high part; the call then goes on to create the section, and
\* its status is that of the section creation or of the mapping.
C12_FileSizeLowPart ==
    SizeQueried(last) =>
        /\ out.FileSize = last.trace[2].result.LowPart
        /\ Len(last.trace) >= 3
        /\ last.trace[3].call = "NtCreateSection"
        /\ last.trace[3].arg = last.trace[2].arg
        /\ IF NT_SUCCESS(last.trace[3].Status)
           THEN /\ Len(last.trace) >= 4
                /\ last.trace[4].call = "NtMapViewOfSection"
                /\ last.Status = last.trace[4].Status
           ELSE last.Status = last.trace[3].Status

\* a file of more than 2^32 bytes was mapped and its truncated size reported
C12_Witness ==
    /\ SizeQueried(last)
    /\ last.trace[2].result.HighPart # 0
    /\ NT_SUCCESS(last.Status)
    /\ out.FileSize = 7
    /\ out.BaseAddress \in ViewsOf(views)

\* C14: an UnMapFile given again the section handle and the address of the
\* UnMapFile before it, which returned TRUE, makes both system calls, both
\* are refused, it returns FALSE, and no handle and no view changes.
C14_SecondCloseRejected ==
    [][(last'.fn = "UnMapFile" /\ last'.repeat) =>
          /\ ~last'.ret
          /\ Len(last'.trace) = 2
          /\ last'.trace[1].call = "NtUnmapViewOfSection"
          /\ last'.trace[1].arg = last'.BaseAddress
          /\ ~NT_SUCCESS(last'.trace[1].Status)
          /\ last'.trace[2].call = "NtClose"
          /\ last'.trace[2].arg = last'.SectionHandle
          /\ ~NT_SUCCESS(last'.trace[2].Status)
          /\ handles' = handles
          /\ views' = views]_vars

\* the second UnMapFile was refused while the file handle was still open
C14_Witness ==
    /\ last.fn = "UnMapFile"
    /\ last.repeat
    /\ ~last.ret
    /\ last.SectionHandle # NULL
    /\ last.BaseAddress # NULL
    /\ out.FileHandle \in FileHandlesOf(handles)

\* another process has just tried to open the file that a handle returned
\* by OpenAndMapFile holds open
OpenedWhileHeld(DesiredAccess) ==
    /\ last.fn = "OtherProcessOpens"
    /\ last.DesiredAccess = DesiredAccess
    /\ out.FileHandle \in FileHandlesOf(handles)
    /\ handles[out.FileHandle].obj = last.obj

\* C15 as stated: while the file handle of a successful OpenAndMapFile is
\* held, another process's open of the file for writing is not refused for
\* the share mode.
C15_Original ==
    OpenedWhileHeld({"W"}) => last.Status # "STATUS_SHARING_VIOLATION"

\* C15 amended: OpenAndMapFile shares the file for reading only; while its
\* file handle is held, another process's open for reading is not refused for
\* the share mode and its open for writing is refused with a sharing
\* violation.
C15_SharedForReadOnly ==
    /\ OpenedWhileHeld({"R"}) => NT_SUCCESS(last.Status)
    /\ OpenedWhileHeld({"W"}) => last.Status = "STATUS_SHARING_VIOLATION"
    /\ \A h \in FileHandlesOf(handles) :
          handles[h].access = {"R"} /\ handles[h].share = {"R"}

\* a writer was refused while the file handle was held
C15_Witness ==
    /\ OpenedWhileHeld({"W"})
    /\ last.Status = "STATUS_SHARING_VIOLATION"

\* an object of the given kind exists at a name of the namespace
ExistsAt(Name, kind) ==
    \E obj \in Objects : NsPathsFolded[obj] = FoldCase(Name) /\ fs[obj] = kind

\* dir joined with name, as the specification words the join
JoinedName(PathName, FileName) ==
    LET dir == IF IsNull(PathName) THEN <<>> ELSE Deref(PathName)
    IN  IF IsNull(FileName) THEN dir ELSE PolicyJoin(dir, Deref(FileName))

\* C16: whatever was created and deleted before, DoesPathExist returns TRUE
\* exactly when a directory now exists at the path, and DoesFileExist returns
\* TRUE exactly when a file that is not a directory now exists at dir joined
\* with name.
C16_ProbesTellExistence ==
    /\ last.fn = "DoesPathExist" =>
          (last.ret <=> ExistsAt(PathNames[last.names], "dir"))
    /\ last.fn = "DoesFileExist" =>
          (last.ret <=> ExistsAt(JoinedName(NamePairs[last.names][1],
                                            NamePairs[last.names][2]), "file"))

\* the positions of a system call in a trace
CallsOf(tr, call) == {i \in 1..Len(tr) : tr[i].call = call}

\* C17: OpenAndMapFile opens the file, then creates the section, then maps
\* the view; when the mapping fails, the next system call closes the section
\* handle, the one after it closes the file handle, and nothing follows.
C17_ReverseOrderRelease ==
    last.fn = "OpenAndMapFile" =>
        /\ CallsOf(last.trace, "NtOpenFile") = {1}
        /\ \A s \in CallsOf(last.trace, "NtCreateSection") :
              /\ s > 1
              /\ NT_SUCCESS(last.trace[1].Status)
              /\ last.trace[s].arg = last.trace[1].result
        /\ \A m \in CallsOf(last.trace, "NtMapViewOfSection") :
              /\ CallsOf(last.trace, "NtCreateSection") = {m - 1}
              /\ NT_SUCCESS(last.trace[m - 1].Status)
              /\ last.trace[m].arg = last.trace[m - 1].result
              /\ ~NT_SUCCESS(last.trace[m].Status) =>
                    /\ Len(last.trace) = m + 2
                    /\ last.trace[m + 1] =
                          Sys("NtClose", last.trace[m - 1].result, NULL,
                              "STATUS_SUCCESS")
                    /\ last.trace[m + 2] =
                          Sys("NtClose", last.trace[1].result, NULL,
                              "STATUS_SUCCESS")
                    /\ last.Status = last.trace[m].Status
                    /\ last.trace[m - 1].result \notin SectionHandlesOf(handles)
                    /\ last.trace[1].result \notin FileHandlesOf(handles)

\* the mapping failed after the size query: six system calls, the last two
\* the closes
C17_Witness ==
    /\ last.fn = "OpenAndMapFile"
    /\ last.wantFileSize
    /\ Len(last.trace) = 6
    /\ last.trace[4].call = "NtMapViewOfSection"
    /\ ~NT_SUCCESS(last.trace[4].Status)
    /\ last.trace[5].call = "NtClose"
    /\ last.trace[6].call = "NtClose"
    /\ last.trace[5].arg # last.trace[6].arg

\* C20: on every error return of OpenAndMapFile the FileHandle and the
\* SectionHandle slots are NULL and the BaseAddress slot is as it was; on the
\* success return the three slots name an open file handle, an open section
\* handle created from that file handle, and a mapped view of that section.
C20_SlotsNeverStale ==
    [][last'.fn = "OpenAndMapFile" =>
          IF NT_SUCCESS(last'.Status)
          THEN /\ out'.FileHandle \in FileHandlesOf(handles')
               /\ out'.SectionHandle \in SectionHandlesOf(handles')
               /\ handles'[out'.SectionHandle].from = out'.FileHandle
               /\ handles'[out'.SectionHandle].obj = handles'[out'.FileHandle].obj
               /\ out'.BaseAddress \in ViewsOf(views')
               /\ views'[out'.BaseAddress].section = out'.SectionHandle
               /\ out'.FileHandle \notin FileHandlesOf(handles)
               /\ out'.SectionHandle \notin SectionHandlesOf(handles)
               /\ out'.BaseAddress \notin ViewsOf(views)
          ELSE /\ out'.FileHandle = NULL
               /\ out'.SectionHandle = NULL
               /\ out'.BaseAddress = out.BaseAddress]_vars

\* the section could not be created: the handle slots are NULL and the
\* BaseAddress slot still holds the address an earlier call stored
C20_Witness ==
    /\ last.fn = "OpenAndMapFile"
    /\ last.Status = "STATUS_MAPPED_FILE_SIZE_ZERO"
    /\ out.FileHandle = NULL
    /\ out.SectionHandle = NULL
    /\ out.BaseAddress # NULL
    /\ FileHandlesOf(handles) = {}

-----------------------------------------------------------------------------
(* Further properties of NtPathToDiskPartComponents (under SpecParse).     *)

\* C13: whenever the parser returns failure, the disk number and the
\* partition number it returns are 0 and the remainder reference is null,
\* the digits of a disk number it had parsed notwithstanding.
C13_FailureOutputsZero ==
    (parse.called /\ parse.res.ret = FALSE) =>
        /\ parse.res.DiskNumber = ULongZero
        /\ parse.res.PartNumber = ULongZero
        /\ IsNull(parse.res.PathComponent)

\* disk number 3 followed by x: refused, and 3 is not reported
C13_Witness ==
    /\ parse.called
    /\ parse.in.wantPathComponent
    /\ HasDiskNumber(parse.in.NtPath)
    /\ DiskDigits(parse.in.NtPath) = <<"3">>
    /\ CharAt(parse.in.NtPath, DiskEnd(parse.in.NtPath)) = "x"
    /\ parse.res = ParseFail

\* the input is \Device\Harddisk<N>\Partition<M>c, c being neither a
\* backslash nor the end of the string
HasBadPartitionEnd(s) ==
    /\ HasPartitionLiteral(s)
    /\ IsDigitChar(CharAt(s, PartStart(s)))
    /\ CharAt(s, PartEnd(s)) \notin {NUL, BSLASH}

\* C18 as stated: for every input \Device\Harddisk<N>\Partition<M>c the
\* parser succeeds with disk number N, partition number 0 and the remainder
\* that starts at c.
C18_Original ==
    (parse.called /\ HasBadPartitionEnd(parse.in.NtPath)) =>
        /\ parse.res.ret = TRUE
        /\ IsNumber(parse.res.DiskNumber, DiskDigits(parse.in.NtPath))
        /\ parse.res.PartNumber = ULongZero
        /\ parse.in.wantPathComponent
              => parse.res.PathComponent = Ptr(PartEnd(parse.in.NtPath))

\* C18 amended: the same for the inputs whose N is at most 2^32 - 1; the
\* remainder starts at c, just after the digits of M.
C18_PartitionDiscarded ==
    (/\ parse.called /\ HasBadPartitionEnd(parse.in.NtPath)
     /\ FitsULong(DiskDigits(parse.in.NtPath))) =>
        /\ parse.res.ret = TRUE
        /\ IsNumber(parse.res.DiskNumber, DiskDigits(parse.in.NtPath))
        /\ parse.res.PartNumber = ULongZero
        /\ parse.in.wantPathComponent
              => /\ parse.res.PathComponent = Ptr(PartEnd(parse.in.NtPath))
                 /\ Head(Remainder(parse)) =
                        CharAt(parse.in.NtPath, PartEnd(parse.in.NtPath))

\* \Device\Harddisk1\Partition3x gave disk 1, partition 0, remainder x.
C18_Witness ==
    /\ parse.called
    /\ parse.in.NtPath = HarddiskPrefix \o <<"1">> \o PartitionLiteral \o <<"3", "x">>
    /\ parse.in.wantPathComponent
    /\ parse.res.ret = TRUE
    /\ parse.res.DiskNumber = ULong(0, 1)
    /\ parse.res.PartNumber = ULongZero
    /\ Remainder(parse) = <<"x">>

\* C19: whenever the parser returns success and the remainder is asked for,
\* the remainder is a position inside the input, and the suffix that starts
\* there is empty or begins with a backslash.
C19_RemainderEmptyOrSeparator ==
    (parse.called /\ parse.res.ret = TRUE /\ parse.in.wantPathComponent) =>
        /\ ~IsNull(parse.res.PathComponent)
        /\ Deref(parse.res.PathComponent) \in 0..Len(parse.in.NtPath)
        /\ \/ Remainder(parse) = <<>>
           \/ Head(Remainder(parse)) = BSLASH

=============================================================================
